---------------------------- MODULE Spec2Model ----------------------------
(***************************************************************************)
(* State-machine model of the IPv4 option list parser (package ipv4opt).   *)
(*                                                                         *)
(* The model follows the compiling revision of the parser: Parse walks the *)
(* option bytes, getOptionType classifies the type octet, the parsers map  *)
(* dispatches to parseEOOList / parseNOOP / parseSecurity /                *)
(* parseRecordRoute / parseStreamID / parseTimeStamp, and the cursor moves *)
(* by the Length() of the option that was returned.                        *)
(*                                                                         *)
(* Go slices are 0-based; sequences here are 1-based, so data[k] of the    *)
(* source is At(data, k).  An index outside a slice is a run-time panic in *)
(* Go; the parsers return a "panic" outcome for it and Parse stops in      *)
(* pc = "panic" without returning anything.                                *)
(*                                                                         *)
(* uint32 values (Route, Address, Timestamp) are kept as the pair          *)
(* <<high 16 bits, low 16 bits>>, because the model checker's integers are *)
(* signed 32-bit.  U32(a, b, c, d) is a<<24 | b<<16 | c<<8 | d.            *)
(***************************************************************************)
EXTENDS Integers, Sequences, FiniteSets

VARIABLES opts, pc, i, options, ret, retErr

vars == <<opts, pc, i, options, ret, retErr>>

---------------------------------------------------------------------------
(* Program constants                                                       *)

EndOfOptionList == 0
NoOperation == 1
Security == 130
LooseSourceRecordRoute == 131
StrictSourceRecordRoute == 137
RecordRoute == 7
StreamIdentifier == 136
InternetTimestamp == 68
MaxOptionsLen == 40

TSOnly == 0
TSAndAddr == 1
TSPrespec == 3

securityOpLen == 11
streamIDOptLen == 4

ErrOptionDataTooLarge == "The length of the options data is larger than the max options length"
ErrOptionType == "Invalid option type"
ErrIncorrectRRLength == "The length of the RR data is not a multiple of 4"
ErrSecurityTooShort == "security option data too short"
ErrStreamIDTooShort == "Not enought data for stream id option"

\* The error value of a call that has not returned, and Go's nil error.
NoReturn == "none"
Nil == "nil"

---------------------------------------------------------------------------
(* Bounds of the model                                                     *)

\* Octets placed in front of the generated record (each 0 or 1).
MaxPre == 1
\* Longest generated record besides the ones around MaxOptionsLen.
MaxBody == 12
\* Options the walker may accumulate before the model stops following it
\* (only a walk whose cursor stops advancing gets there).
MaxOptions == 8

---------------------------------------------------------------------------
(* Slices and integers as Go has them                                      *)

\* data[k], 0-based.
At(data, k) == data[k + 1]

\* Whether data[k] is inside the slice.
InRange(data, k) == k >= 0 /\ k < Len(data)

\* data[k:], for 0 <= k <= len(data).
SliceFrom(data, k) == SubSeq(data, k + 1, Len(data))

\* make([]byte, n, n) followed by copy(dst, data): the first n bytes of
\* data, zero where data is shorter.
MakeCopy(data, n) == [j \in 1..n |-> IF j <= Len(data) THEN data[j] ELSE 0]

\* Go's remainder a % b for b > 0: it has the sign of a.
GoRem(a, b) == IF a >= 0 THEN a % b ELSE 0 - ((0 - a) % b)

\* a<<8 | b on a 16-bit value.
U16(a, b) == a * 256 + b

\* a<<16 | b<<8 | c, the low 24 bits of a uint32.
U24(a, b, c) == a * 65536 + b * 256 + c

\* a<<24 | b<<16 | c<<8 | d as <<high half, low half>>.
U32(a, b, c, d) == <<U16(a, b), U16(c, d)>>

U32Zero == <<0, 0>>

---------------------------------------------------------------------------
(* Outcomes of a parser: the (IPOption, error) pair, or a run-time panic   *)

Ok(o) == [kind |-> "ok", opt |-> o]
Err(e) == [kind |-> "err", err |-> e]
Panic == [kind |-> "panic"]

\* Outcome of a loop that ran to its end with the list v; a loop that
\* indexes outside its slice has the outcome Panic.
Done(v) == [kind |-> "ok", val |-> v]

---------------------------------------------------------------------------
(* getOptionType                                                           *)

KnownTypes ==
    {EndOfOptionList, NoOperation, Security, LooseSourceRecordRoute,
     StrictSourceRecordRoute, RecordRoute, StreamIdentifier, InternetTimestamp}

getOptionType(b) ==
    IF b \in KnownTypes
    THEN [otype |-> b, err |-> Nil]
    ELSE [otype |-> EndOfOptionList, err |-> ErrOptionType]

---------------------------------------------------------------------------
(* parseNOOP, parseEOOList                                                 *)

parseNOOP(data) ==
    IF Len(data) < 1
    THEN Err("Failed to parse NoOperation, no data available")
    ELSE Ok([struct |-> "NoOp", otype |-> NoOperation, length |-> 1,
             data |-> MakeCopy(data, 1)])

\* The source sets otype to NoOperation here too.
parseEOOList(data) ==
    IF Len(data) < 1
    THEN Err("Failed to parse NoOperation, no data available")
    ELSE Ok([struct |-> "EOOList", otype |-> NoOperation, length |-> 1,
             data |-> MakeCopy(data, 1)])

---------------------------------------------------------------------------
(* parseSecurity                                                           *)

parseSecurity(data) ==
    IF Len(data) < securityOpLen
    THEN Err(ErrSecurityTooShort)
    ELSE Ok([struct |-> "Sec", otype |-> Security, length |-> securityOpLen,
             data |-> MakeCopy(data, 11),
             Level |-> U16(At(data, 2), At(data, 3)),
             Compartment |-> U16(At(data, 4), At(data, 5)),
             Restriction |-> U16(At(data, 6), At(data, 7)),
             TCC |-> U24(At(data, 6), At(data, 9), At(data, 10))])

---------------------------------------------------------------------------
(* parseRecordRoute                                                        *)

\* The loop "for i = 3; i < length; i += 4" over rr.option.data: the routes
\* appended when it ends, or Panic on an index outside odata.
RECURSIVE rrRoutes(_, _, _, _)
rrRoutes(odata, length, k, routes) ==
    IF ~(k < length) THEN Done(routes)
    ELSE IF ~InRange(odata, k + 3) THEN Panic
    ELSE rrRoutes(odata, length, k + 4,
                  Append(routes, U32(At(odata, k), At(odata, k + 1),
                                     At(odata, k + 2), At(odata, k + 3))))

parseRecordRoute(data) ==
    IF ~InRange(data, 0) \/ ~InRange(data, 1) THEN Panic
    ELSE LET length == At(data, 1)
             odata == MakeCopy(data, length)
         IN IF ~InRange(odata, 2) THEN Panic
            ELSE IF GoRem(length - 3, 4) # 0 THEN Err(ErrIncorrectRRLength)
            ELSE LET routes == rrRoutes(odata, length, 3, <<>>)
                 IN IF routes.kind = "panic" THEN Panic
                    ELSE Ok([struct |-> "RR", otype |-> At(data, 0),
                             length |-> length, data |-> odata,
                             Pointer |-> At(odata, 2), Routes |-> routes.val])

---------------------------------------------------------------------------
(* parseStreamID                                                           *)

\* data[0] is read before the length test.
parseStreamID(data) ==
    IF ~InRange(data, 0) THEN Panic
    ELSE IF Len(data) < 4
    THEN Err(ErrStreamIDTooShort)
    ELSE Ok([struct |-> "StreamID", otype |-> At(data, 0),
             length |-> streamIDOptLen, data |-> MakeCopy(data, streamIDOptLen),
             ID |-> U16(At(data, 2), At(data, 3))])

---------------------------------------------------------------------------
(* parseTimeStamp, getStampsTSOnly, getStamps                              *)

\* "for i = 0; i < length; i += 4" over data (the input after the 4-byte
\* header): the stamps when it ends, or Panic on an index outside data.
RECURSIVE getStampsTSOnlyFrom(_, _, _, _)
getStampsTSOnlyFrom(data, length, k, stamp) ==
    IF ~(k < length) THEN Done(stamp)
    ELSE IF ~InRange(data, k + 3) THEN Panic
    ELSE getStampsTSOnlyFrom(data, length, k + 4,
             Append(stamp, [Time |-> U32(At(data, k), At(data, k + 1),
                                         At(data, k + 2), At(data, k + 3)),
                            Addr |-> U32Zero]))

getStampsTSOnly(data, length) == getStampsTSOnlyFrom(data, length, 0, <<>>)

\* "for i = 0; i < length; i += 8" over data.
RECURSIVE getStampsFrom(_, _, _, _)
getStampsFrom(data, length, k, stamp) ==
    IF ~(k < length) THEN Done(stamp)
    ELSE IF ~InRange(data, k + 7) THEN Panic
    ELSE getStampsFrom(data, length, k + 8,
             Append(stamp, [Addr |-> U32(At(data, k), At(data, k + 1),
                                         At(data, k + 2), At(data, k + 3)),
                            Time |-> U32(At(data, k + 4), At(data, k + 5),
                                         At(data, k + 6), At(data, k + 7))]))

getStamps(data, length) == getStampsFrom(data, length, 0, <<>>)

tsStampsAnyFlag(flags, data, length) ==
    IF flags \in {TSAndAddr, TSPrespec}
    THEN getStamps(SliceFrom(data, 4), length - 4)
    ELSE getStampsTSOnly(SliceFrom(data, 4), length - 4)

\* "switch ts.Flags": the stamps of a record with these flags, no stamps for
\* a flag that has no case, or Panic.
tsStamps(flags, data, length) ==
    IF flags = TSOnly
    THEN getStampsTSOnly(SliceFrom(data, 4), length - 4)
    ELSE IF flags \in {TSAndAddr, TSPrespec}
    THEN getStamps(SliceFrom(data, 4), length - 4)
    ELSE Done(<<>>)

parseTimeStamp(data) ==
    IF ~InRange(data, 0) \/ ~InRange(data, 1) \/ ~InRange(data, 2)
          \/ ~InRange(data, 3) THEN Panic
    ELSE LET length == At(data, 1)
             flags == At(data, 3) % 16
             stamps == tsStamps(flags, data, length)
         IN IF stamps.kind = "panic" THEN Panic
            ELSE Ok([struct |-> "TS", otype |-> At(data, 0),
                     length |-> length, data |-> MakeCopy(data, length),
                     Pointer |-> At(data, 2),
                     Over |-> At(data, 3) \div 16,
                     Flags |-> flags,
                     Stamps |-> stamps.val])

---------------------------------------------------------------------------
(* parsers: the dispatch table                                             *)

parsers(oType, data) ==
    CASE oType = EndOfOptionList -> parseEOOList(data)
      [] oType = NoOperation -> parseNOOP(data)
      [] oType = Security -> parseSecurity(data)
      [] oType \in {LooseSourceRecordRoute, StrictSourceRecordRoute, RecordRoute}
           -> parseRecordRoute(data)
      [] oType = StreamIdentifier -> parseStreamID(data)
      [] oType = InternetTimestamp -> parseTimeStamp(data)

---------------------------------------------------------------------------
(* Inputs                                                                  *)

\* Type octets tried: the eight known codes and one unknown code.
TypeOctets == KnownTypes \cup {2}

\* Length octets tried.
LenOctets ==
    {0, 2, 3, 4, 7, 8, 9, 11, 12, 16, 23, 24, MaxOptionsLen - 1, MaxOptionsLen}

\* Overflow/flag octets tried: TSOnly, TSAndAddr, TSPrespec and flag 2.
FlagOctets == {64, 97, 67, 66}

\* Payload octet at 0-based offset k of the generated record: pairwise
\* distinct within any window of 36 octets.
PayloadOctet(k) == (7 * k + 3) % 256

\* Lengths of the generated record.  Its octets are type, length, pointer
\* (always 5), overflow/flag, then the payload pattern.
BodyLens == (0..MaxBody) \cup {MaxOptionsLen - 1, MaxOptionsLen, MaxOptionsLen + 1}

Body(t, l, f, a) ==
    [k \in 1..a |-> CASE k = 1 -> t
                      [] k = 2 -> l
                      [] k = 3 -> 5
                      [] k = 4 -> f
                      [] OTHER -> PayloadOctet(k - 1)]

Pres == UNION {[1..n -> {EndOfOptionList, NoOperation}] : n \in 0..MaxPre}

\* What follows the generated record.
Posts == {<<>>, <<0>>, <<1>>, <<2>>, <<1, 0, 2>>, <<136, 4, 171, 205>>}

Inputs ==
    {pre \o Body(t, l, f, a) \o post :
        pre \in Pres, post \in Posts,
        t \in TypeOctets, l \in LenOctets, f \in FlagOctets, a \in BodyLens}

---------------------------------------------------------------------------
(* Parse                                                                   *)

tooLargeFrom40(optsLen) == optsLen >= MaxOptionsLen

\* "optsLen > MaxOptionsLen"
tooLarge(optsLen) == optsLen > MaxOptionsLen

errorReturnPartial(opts0) == opts0

\* The option list of "return nil, err" (opts0: the options decoded so far).
errorReturn(opts0) == <<>>

Init ==
    /\ opts \in Inputs
    /\ pc = "entry"
    /\ i = 0
    /\ options = <<>>
    /\ ret = <<>>
    /\ retErr = NoReturn

\* The checks before the loop.
ParseEntry ==
    /\ pc = "entry"
    /\ IF tooLarge(Len(opts))
       THEN /\ pc' = "done"
            /\ ret' = errorReturn(options)
            /\ retErr' = ErrOptionDataTooLarge
       ELSE IF Len(opts) = 0
       THEN /\ pc' = "done"
            /\ ret' = options
            /\ retErr' = Nil
       ELSE /\ pc' = "loop"
            /\ UNCHANGED <<ret, retErr>>
    /\ UNCHANGED <<opts, i, options>>

\* One iteration of the loop, with the test of "i < optsLen" that follows it.
ParseIterate ==
    /\ pc = "loop"
    /\ Len(options) < MaxOptions
    /\ LET t == getOptionType(At(opts, i))
       IN IF t.err # Nil
          THEN /\ pc' = "done"
               /\ ret' = errorReturn(options)
               /\ retErr' = t.err
               /\ UNCHANGED <<i, options>>
          ELSE LET r == parsers(t.otype, SliceFrom(opts, i))
               IN CASE r.kind = "panic" ->
                         /\ pc' = "panic"
                         /\ UNCHANGED <<i, options, ret, retErr>>
                    [] r.kind = "err" ->
                         /\ pc' = "done"
                         /\ ret' = errorReturn(options)
                         /\ retErr' = r.err
                         /\ UNCHANGED <<i, options>>
                    [] r.kind = "ok" ->
                         /\ options' = Append(options, r.opt)
                         /\ i' = i + r.opt.length
                         /\ IF i' < Len(opts)
                            THEN /\ pc' = "loop"
                                 /\ UNCHANGED <<ret, retErr>>
                            ELSE /\ pc' = "done"
                                 /\ ret' = options'
                                 /\ retErr' = Nil
    /\ UNCHANGED opts

Next == ParseEntry \/ ParseIterate

Spec == Init /\ [][Next]_vars

---------------------------------------------------------------------------
(* Vocabulary of the properties                                            *)

\* Offset in opts at which the walker read the type octet of options[k]:
\* the sum of the lengths of the options before it.
RECURSIVE Start(_)
Start(k) == IF k = 1 THEN 0 ELSE Start(k - 1) + options[k - 1].length

\* The octet of the input at 0-based offset p; -1 when the input has none.
Octet(p) == IF p >= 0 /\ p < Len(opts) THEN At(opts, p) ELSE -1

\* Octets left in the input from offset p on.
Remaining(p) == Len(opts) - p

RouteTypes == {LooseSourceRecordRoute, StrictSourceRecordRoute, RecordRoute}

LengthPrefixed == RouteTypes \cup {Security, StreamIdentifier, InternetTimestamp}

\* The call is over: it returned, or it stopped in a run-time panic.
Stopped == pc \in {"done", "panic"}

Returned == pc = "done"

Succeeded == pc = "done" /\ retErr = Nil

\* The errors that say a record is longer than what is left of the input.
NotEnoughData == {ErrSecurityTooShort, ErrStreamIDTooShort}

---------------------------------------------------------------------------
(* C1 *)

\* C1: Parse terminates on every input of at most 40 bytes; in particular
\* every loop iteration that does not return moves the cursor forward by at
\* least one octet, also when a Timestamp record declares length 0.
C1_IterationAdvances == [][(pc = "loop" /\ pc' = "loop") => i' > i]_vars

---------------------------------------------------------------------------
(* C2 *)

\* C2: once the walker has read an End-of-List type octet, Parse has
\* appended the marker and returned successfully: the marker is the last
\* option and nothing after it is decoded or can cause an error.
C2_EndOfListStops ==
    \A k \in 1..Len(options) :
        Octet(Start(k)) = EndOfOptionList =>
            /\ k = Len(options)
            /\ Succeeded
            /\ ret = options

---------------------------------------------------------------------------
(* C3 *)

\* Octets the walker consumed for options[k] according to the claim: 1 for
\* NoOp and End-of-List, the declared length octet otherwise.
DeclaredConsumed(k) ==
    IF Octet(Start(k)) \in LengthPrefixed THEN Octet(Start(k) + 1) ELSE 1

\* Octets discarded after an End-of-List that ended the walk.
Discarded ==
    IF ret # <<>> /\ Octet(Start(Len(ret))) = EndOfOptionList
    THEN Len(opts) - (Start(Len(ret)) + 1)
    ELSE 0

\* C3: on success the octets consumed by the records plus the octets
\* discarded after End-of-List add up to the input length, each
\* length-prefixed record is followed by a type octet read at start +
\* declared length, and the cursor never passes the end of the input.
C3_BytesAccounted ==
    /\ i <= Len(opts) \/ pc = "entry"
    /\ \A k \in 1..Len(options) : options[k].length = DeclaredConsumed(k)
    /\ Succeeded /\ ret # <<>> =>
           Start(Len(ret)) + DeclaredConsumed(Len(ret)) + Discarded = Len(opts)

---------------------------------------------------------------------------
(* C4 *)

\* C4: every error aborts the call with no partial result.  A returned
\* error always comes with an empty option list, however many options were
\* decoded before; a stop at an unknown type octet is a return of
\* ErrOptionType, and ErrOptionType is returned only at such an octet.
C4_ErrorsReturnNothing ==
    /\ retErr \notin {NoReturn, Nil} => Returned /\ ret = <<>>
    /\ (Stopped /\ Len(opts) <= 40 /\ i < Len(opts)
           /\ Octet(i) \notin {0, 1, 7, 68, 130, 131, 136, 137})
         => Returned /\ retErr = ErrOptionType
    /\ retErr = ErrOptionType =>
           i < Len(opts) /\ Octet(i) \notin {0, 1, 7, 68, 130, 131, 136, 137}

\* An unknown type octet met after at least one option had been decoded.
C4_Witness ==
    /\ Returned /\ retErr = ErrOptionType
    /\ Len(options) >= 1
    /\ ret = <<>>

---------------------------------------------------------------------------
(* C5 *)

\* C5: an input longer than 40 bytes is answered with ErrOptionDataTooLarge
\* and no options before any record is decoded, and an input of 0..40 bytes
\* is never answered with ErrOptionDataTooLarge.
C5_TooLargeExactlyOver40 ==
    pc # "entry" =>
        /\ Len(opts) > 40 =>
               /\ Returned /\ retErr = ErrOptionDataTooLarge
               /\ ret = <<>> /\ options = <<>> /\ i = 0
        /\ Len(opts) <= 40 => retErr # ErrOptionDataTooLarge

\* An input of 41 bytes was refused.
C5_Witness ==
    /\ Len(opts) = 41
    /\ Returned /\ retErr = ErrOptionDataTooLarge /\ ret = <<>>

---------------------------------------------------------------------------
(* C6 *)

\* Whether the record whose type octet is at offset p needs more octets
\* than the input has left.
NeedsMore(p) ==
    \/ Octet(p) = Security /\ Remaining(p) < 11
    \/ Octet(p) = StreamIdentifier /\ Remaining(p) < 4
    \/ /\ Octet(p) \in RouteTypes \cup {InternetTimestamp}
       /\ Remaining(p) < 2 \/ Remaining(p) < Octet(p + 1)

\* C6: a length-prefixed record that needs more octets than remain makes
\* Parse fail with a not-enough-data error, and no decoded option reaches
\* past the end of the input.
C6_TruncatedRecordRejected ==
    /\ (Stopped /\ Len(opts) <= 40 /\ i < Len(opts) /\ NeedsMore(i))
         => Returned /\ retErr \in NotEnoughData
    /\ \A k \in 1..Len(options) : Start(k) + options[k].length <= Len(opts)

---------------------------------------------------------------------------
(* C7 *)

\* C7: a Security record is accepted only with declared length 11, and then
\* consumes 11 octets.
C7_SecurityLengthIs11 ==
    \A k \in 1..Len(options) :
        Octet(Start(k)) = Security =>
            Octet(Start(k) + 1) = 11 /\ options[k].length = 11

---------------------------------------------------------------------------
(* C8 *)

\* C8: the fields of an accepted Security record are the big-endian values
\* of octets 2..3, 4..5, 6..7 and 8..10 of the record.
C8_SecurityFields ==
    \A k \in 1..Len(options) :
        options[k].struct = "Sec" =>
            LET s == Start(k)
            IN /\ options[k].Level = Octet(s + 2) * 256 + Octet(s + 3)
               /\ options[k].Compartment = Octet(s + 4) * 256 + Octet(s + 5)
               /\ options[k].Restriction = Octet(s + 6) * 256 + Octet(s + 7)
               /\ options[k].TCC =
                      Octet(s + 8) * 65536 + Octet(s + 9) * 256 + Octet(s + 10)

---------------------------------------------------------------------------
(* C9 *)

\* The mathematical (L - 3) mod 4 differs from 0.
BadRouteLength(L) == (L - 3) % 4 # 0

\* C9: a Route-Record record whose declared length L has (L - 3) mod 4 # 0
\* is rejected with ErrIncorrectRRLength, for every L including L < 3, and
\* fails in no other way; no such record is accepted.
C9_BadRouteLengthRejected ==
    /\ (Stopped /\ Len(opts) <= 40 /\ Octet(i) \in RouteTypes
           /\ Remaining(i) >= 2 /\ BadRouteLength(Octet(i + 1)))
         => Returned /\ retErr = ErrIncorrectRRLength
    /\ \A k \in 1..Len(options) :
           Octet(Start(k)) \in RouteTypes => ~BadRouteLength(Octet(Start(k) + 1))

---------------------------------------------------------------------------
(* C10 *)

\* C10: an accepted Route-Record record with declared length L decodes to
\* its type octet, pointer = octet 2 and (L - 3) / 4 routes, the j-th being
\* the big-endian value of the four input octets from 3 + 4(j - 1) on.
C10_RouteFields ==
    \A k \in 1..Len(options) :
        options[k].struct = "RR" =>
            LET s == Start(k)
                L == Octet(s + 1)
            IN /\ options[k].otype = Octet(s)
               /\ options[k].Pointer = Octet(s + 2)
               /\ Len(options[k].Routes) * 4 = L - 3
               /\ \A j \in 1..Len(options[k].Routes) :
                      LET q == s + 3 + 4 * (j - 1)
                      IN options[k].Routes[j] =
                             <<Octet(q) * 256 + Octet(q + 1),
                               Octet(q + 2) * 256 + Octet(q + 3)>>

---------------------------------------------------------------------------
(* Errors the properties name that this revision of the parser lacks       *)

StreamIDLengthIncorrect == "Then stream ID length is not 4"
TSLengthIncorrect == "The length of the route data is not a multiple of 4"

---------------------------------------------------------------------------
(* C11 *)

\* C11: a Stream-Identifier record whose length octet is not 4 (its four
\* octets being in the input) is rejected with the stream-id length error; an accepted one has declared length 4,
\* id = big-endian value of octets 2..3, and consumes 4 octets.
C11_StreamIDLengthIs4 ==
    /\ (Stopped /\ Len(opts) <= 40 /\ Octet(i) = StreamIdentifier
           /\ Remaining(i) >= 4 /\ Octet(i + 1) # 4)
         => Returned /\ retErr = StreamIDLengthIncorrect
    /\ \A k \in 1..Len(options) :
           Octet(Start(k)) = StreamIdentifier =>
               /\ Octet(Start(k) + 1) = 4
               /\ options[k].length = 4
               /\ options[k].ID = Octet(Start(k) + 2) * 256 + Octet(Start(k) + 3)

---------------------------------------------------------------------------
(* C12 *)

\* Width of one stamp under the 4-bit flag; 0 for a flag with no layout.
StampWidth(flag) ==
    IF flag = 0 THEN 4 ELSE IF flag \in {1, 3} THEN 8 ELSE 0

\* The Timestamp record at offset p has its 4-octet header in the input,
\* and a payload (declared length - 4) that is not a multiple of the stamp
\* width its flag selects.
MisalignedTimestamp(p) ==
    /\ Octet(p) = InternetTimestamp
    /\ Remaining(p) >= 4
    /\ Octet(p + 1) >= 4
    /\ StampWidth(Octet(p + 3) % 16) # 0
    /\ (Octet(p + 1) - 4) % StampWidth(Octet(p + 3) % 16) # 0

\* C12: a Timestamp record whose payload is not a multiple of its stamp
\* width is rejected with the timestamp length error and never yields a
\* decoded option.
C12_MisalignedTimestampRejected ==
    /\ (Stopped /\ Len(opts) <= 40 /\ i < Len(opts) /\ MisalignedTimestamp(i))
         => Returned /\ retErr = TSLengthIncorrect
    /\ \A k \in 1..Len(options) : ~MisalignedTimestamp(Start(k))

---------------------------------------------------------------------------
(* C13 *)

\* Big-endian value of the four input octets from offset q on.
Word(q) == <<Octet(q) * 256 + Octet(q + 1), Octet(q + 2) * 256 + Octet(q + 3)>>

\* C13: an accepted Timestamp record with declared length L >= 4 has pointer =
\* octet 2, overflow and flag = the high and low 4 bits of octet 3, and
\* (L - 4) / 4 time-only stamps (flag 0) or (L - 4) / 8 address-then-time
\* stamps (flag 1 or 3), in input order, all read from inside the record.
C13_TimestampFields ==
    \A k \in 1..Len(options) :
        options[k].struct = "TS" =>
            LET s == Start(k)
                L == Octet(s + 1)
                o == options[k]
                w == StampWidth(o.Flags)
            IN /\ o.Pointer = Octet(s + 2)
               /\ o.Over = Octet(s + 3) \div 16
               /\ o.Flags = Octet(s + 3) % 16
               /\ (w # 0 /\ L >= 4) =>
                    /\ Len(o.Stamps) * w = L - 4
                    /\ \A j \in 1..Len(o.Stamps) :
                           LET q == s + 4 + w * (j - 1)
                           IN /\ q + w <= s + L
                              /\ o.Stamps[j].Time = Word(q + w - 4)
                              /\ o.Stamps[j].Addr =
                                     IF w = 8 THEN Word(q) ELSE <<0, 0>>

---------------------------------------------------------------------------
(* C14 *)

\* The Timestamp record at offset p has its 4-octet header in the input and
\* a flag other than 0, 1 and 3.
UnknownFlagTimestamp(p) ==
    /\ Octet(p) = InternetTimestamp
    /\ Remaining(p) >= 4
    /\ Octet(p + 3) % 16 \notin {0, 1, 3}

\* C14: a Timestamp record whose flag is not 0, 1 or 3 is not refused: it
\* decodes to a Timestamp option with no stamps and with pointer, overflow
\* and flag taken from octets 2 and 3, and the walker goes on after the
\* declared length.
C14_UnknownFlagAccepted ==
    /\ ~(Stopped /\ Len(opts) <= 40 /\ i < Len(opts) /\ UnknownFlagTimestamp(i))
    /\ \A k \in 1..Len(options) :
           UnknownFlagTimestamp(Start(k)) =>
               /\ options[k].struct = "TS"
               /\ options[k].Stamps = <<>>
               /\ options[k].Pointer = Octet(Start(k) + 2)
               /\ options[k].Over = Octet(Start(k) + 3) \div 16
               /\ options[k].Flags = Octet(Start(k) + 3) % 16
               /\ options[k].length = Octet(Start(k) + 1)
               /\ k < Len(options) =>
                      Start(k + 1) = Start(k) + Octet(Start(k) + 1)

\* A Timestamp record with flag 2 and eight octets, all in the input, was
\* decoded and the walker decoded the option after it.
C14_Witness ==
    \E k \in 1..Len(options) :
        /\ UnknownFlagTimestamp(Start(k))
        /\ options[k].length = 8
        /\ Start(k) + 8 < Len(opts)
        /\ k < Len(options)
        /\ Succeeded

---------------------------------------------------------------------------
(* C15 *)

\* C15: every length-prefixed option of a successful Parse has Length() =
\* the length octet of its record and Data() = that many input octets from
\* the type octet on; NoOp and End-of-List have length 1.
C15_EnvelopeMatchesInput ==
    Succeeded =>
        \A k \in 1..Len(ret) :
            LET s == Start(k)
            IN IF Octet(s) \in LengthPrefixed
               THEN /\ ret[k].length = Octet(s + 1)
                    /\ Len(ret[k].data) = ret[k].length
                    /\ \A j \in 1..Len(ret[k].data) :
                           ret[k].data[j] = Octet(s + j - 1)
               ELSE ret[k].length = 1

---------------------------------------------------------------------------
(* C16 *)

\* C16: on success the k-th option is the k-th record of the input and its
\* kind is the type octet at the record's start: End-of-List for 0, NoOp
\* for 1.
C16_KindIsTypeOctet ==
    Succeeded => \A k \in 1..Len(ret) : ret[k].otype = Octet(Start(k))

---------------------------------------------------------------------------
(* C17 *)

\* C17: on an input of 0..40 bytes Parse never indexes outside a slice: a
\* truncated or mis-declared record is an error value, never a run-time
\* fault.
C17_NoOutOfRangeFault == pc # "panic"

=============================================================================
